---- MODULE Spec2Model ----
(***************************************************************************)
(* State-machine model of the RP_Log ring-buffer logging facility          *)
(* (RP_Log.c / RP_Log.h).                                                  *)
(*                                                                         *)
(* Bytes are their ASCII codes.  C arrays indexed from 0 are modelled as   *)
(* functions over 0..n-1 (entries) or as sequences whose element i+1 is    *)
(* the C element i (byte buffers).                                         *)
(***************************************************************************)
EXTENDS Integers, Sequences, FiniteSets, TLC

VARIABLES
    config_param,   \* g_rp_log.config_param
    ring_buffer,    \* g_rp_log.ring_buffer: entries, head, tail, count
    tick,           \* the value HAL_GetTick() returns
    arg,            \* the log statement the producer executes: level, file, msg
    last,           \* the most recently completed call and what it returned
    ncalls,         \* number of write calls made so far
    nfail,          \* number of sends the sink has refused so far
    nflush,         \* number of flush calls made so far
    steps,          \* number of calls made since the initial state
    pushed,         \* history: records stored by write since the last flush
    sent,           \* history: records the sink accepted since the last flush
    flushed,        \* history: records stored by write before the last flush
    threads         \* per execution context: program counter and locals

vars == <<config_param, ring_buffer, tick, arg, last, ncalls, nfail, nflush, steps,
          pushed, sent, flushed, threads>>

-----------------------------------------------------------------------------
(* Program constants                                                       *)

RP_LOG_ENTRY_MAX_SIZE == 256
RP_LOG_RING_BUFFER_CNT == 16

RP_LOG_LEVEL_FATAL == 0
RP_LOG_LEVEL_ERROR == 1
RP_LOG_LEVEL_WARN == 2
RP_LOG_LEVEL_INFO == 3
RP_LOG_LEVEL_DEBUG == 4
RP_LOG_LEVEL_TRACE == 5

RP_LOG_OUTPUT_FATAL_ONLY == 0
RP_LOG_OUTPUT_FATAL_TO_ERROR == 1
RP_LOG_OUTPUT_FATAL_TO_WARN == 2
RP_LOG_OUTPUT_FATAL_TO_INFO == 3
RP_LOG_OUTPUT_FATAL_TO_DEBUG == 4
RP_LOG_OUTPUT_ALL == 5

RP_LogLevel_t == RP_LOG_LEVEL_FATAL .. RP_LOG_LEVEL_TRACE
RP_LogOutputRange_t == RP_LOG_OUTPUT_FATAL_ONLY .. RP_LOG_OUTPUT_ALL

\* uint16_t arithmetic
U16(x) == x % 65536

\* g_level_names: "FATAL", "ERROR", "WARN ", "INFO ", "DEBUG", "TRACE"
g_level_names ==
    << <<70, 65, 84, 65, 76>>, <<69, 82, 82, 79, 82>>, <<87, 65, 82, 78, 32>>,
       <<73, 78, 70, 79, 32>>, <<68, 69, 66, 85, 71>>, <<84, 82, 65, 67, 69>> >>

-----------------------------------------------------------------------------
(* Bounds of the model                                                     *)

MaxPre == 17         \* write calls of Spec before the first refused send or flush
MaxCalls == 4        \* calls of Spec from the first refused send or flush on
MaxCallsW == 2       \* calls per behaviour of SpecW
MaxWritesC == 2      \* write calls per behaviour of SpecConc
MaxWorksC == 2       \* work calls per behaviour of SpecConc
MaxFillC == 15       \* records buffered before the threads of SpecConc start
ShortLenRT == 30     \* records of SpecRT: lengths 0..ShortLenRT,
LongLenLoRT == 250   \* LongLenLoRT..LongLenHiRT
LongLenHiRT == 260
HugeLenRT == 300     \* and HugeLenRT
MaxWrittenD == 17    \* write calls made before SpecDrain starts
MaxWritesD == 2      \* write calls per behaviour of SpecDrain
MsgLenLo == 219      \* long messages of SpecW: lengths MsgLenLo..MsgLenHi
MsgLenHi == 240
MsgLenMax == 300     \* and one message of length MsgLenMax
LongFileLen == 239   \* length of the longest file name of SpecW, without ".c"

-----------------------------------------------------------------------------
(* Helpers on byte strings and byte arrays                                 *)
(*                                                                         *)
(* A local array (uint8_t buffer[RP_LOG_ENTRY_MAX_SIZE], never             *)
(* initialised) is held as the sequence of its cells up to the last one    *)
(* stored to; the cells behind are indeterminate.  A cell in front that    *)
(* was skipped holds Undef.  The data array of a ring buffer slot is held  *)
(* the same way, but the cells behind are the zeros of the static          *)
(* initialiser or of memset.                                               *)

Min(a, b) == IF a < b THEN a ELSE b
Max(a, b) == IF a > b THEN a ELSE b

\* What a cell of a local array holds before anything is stored to it
Undef == -1

\* %d / %lu of a non-negative number: its decimal digits
RECURSIVE Dec(_)
Dec(n) == IF n < 10 THEN <<48 + n>> ELSE Dec(n \div 10) \o <<48 + (n % 10)>>

\* strrchr(s, c): the 1-based position of the last c in s, 0 for NULL
strrchr(s, c) ==
    IF \E i \in 1..Len(s) : s[i] = c
    THEN CHOOSE i \in 1..Len(s) : s[i] = c /\ \A j \in (i+1)..Len(s) : s[j] # c
    ELSE 0

\* The array buf with the bytes w stored from C index off on; fill is what
\* the cells behind buf hold.
Overlay(buf, off, w, fill) ==
    IF Len(w) = 0 THEN buf
    ELSE [i \in 1..Max(Len(buf), off + Len(w)) |->
            IF off < i /\ i <= off + Len(w) THEN w[i - off]
            ELSE IF i <= Len(buf) THEN buf[i]
            ELSE fill]

\* The first n bytes of the array src, whose cells behind hold fill
Bytes(src, n, fill) == [i \in 1..n |-> IF i <= Len(src) THEN src[i] ELSE fill]

\* snprintf(buf + off, size, ...) where the conversions render to str:
\* stores at most size-1 bytes and a terminating 0, returns Len(str).
\* size is a size_t, so a negative int argument is a huge size.  buf + off
\* then lies behind the array: a library that refuses a size above INT_MAX
\* (eof) stores nothing and returns -1, another one stores str behind the
\* array, none of it in the array, and returns Len(str).  oob records that
\* the call was made with such arguments.
snprintf(buf, off, size, str, eof) ==
    LET k == IF size <= 0 THEN 0 ELSE Min(Len(str), size - 1)
        w == IF size <= 0 THEN <<>> ELSE SubSeq(str, 1, k) \o <<0>>
    IN  [buf |-> Overlay(buf, off, w, Undef),
         n   |-> IF size < 0 /\ eof THEN -1 ELSE Len(str),
         oob |-> size < 0]

-----------------------------------------------------------------------------
(* Ring buffer                                                             *)

\* RP_LogEntry_t after the static initialiser / memset: data all zero, length 0
ZeroEntry == [data |-> <<>>, length |-> 0]

\* RP_LogRingBuffer_t after `.ring_buffer = {0}` / memset(.., 0, ..)
ZeroRingBuffer ==
    [entries |-> [i \in 0..(RP_LOG_RING_BUFFER_CNT - 1) |-> ZeroEntry],
     head |-> 0, tail |-> 0, count |-> 0]

RB_GetNextIndex(index, max) == U16((index + 1) % max)

\* Mutant: the full test is off by one
RB_IsFull_OffByOne(rb) == rb.count > RP_LOG_RING_BUFFER_CNT

RB_IsFull(rb) == rb.count >= RP_LOG_RING_BUFFER_CNT

\* Mutant: the empty test compares with < instead of ==
RB_IsEmpty_Negative(rb) == rb.count < 0

RB_IsEmpty(rb) == rb.count = 0

\* Mutant: the clamp leaves room for a terminating byte
ClampLength_MaxMinus1(length) ==
    IF length > RP_LOG_ENTRY_MAX_SIZE - 1 THEN RP_LOG_ENTRY_MAX_SIZE - 1 ELSE length

\* The length RB_Push stores: length, at most RP_LOG_ENTRY_MAX_SIZE
ClampLength(length) ==
    IF length > RP_LOG_ENTRY_MAX_SIZE THEN RP_LOG_ENTRY_MAX_SIZE ELSE length

\* Mutant: count is not raised
RB_Push_KeepsCount(rb, data, length) ==
    IF rb.count >= RP_LOG_RING_BUFFER_CNT
    THEN [ret |-> -1, rb |-> rb]
    ELSE LET len == IF length > RP_LOG_ENTRY_MAX_SIZE
                    THEN RP_LOG_ENTRY_MAX_SIZE ELSE length
             e == [data   |-> Overlay(rb.entries[rb.head].data, 0,
                                      Bytes(data, len, Undef), 0),
                   length |-> len]
         IN  [ret |-> 0,
              rb  |-> [entries |-> [rb.entries EXCEPT ![rb.head] = e],
                       head    |-> (rb.head + 1) % RP_LOG_RING_BUFFER_CNT,
                       tail    |-> rb.tail,
                       count   |-> rb.count]]

\* Mutant: the slot at head is written before the full test
RB_Push_CopyFirst(rb, data, length) ==
    LET len == ClampLength(length)
        e == [data   |-> Overlay(rb.entries[rb.head].data, 0,
                                 Bytes(data, len, Undef), 0),
              length |-> len]
        es == [rb.entries EXCEPT ![rb.head] = e]
    IN  IF RB_IsFull(rb)
        THEN [ret |-> -1, rb |-> [rb EXCEPT !.entries = es]]
        ELSE [ret |-> 0,
              rb  |-> [entries |-> es,
                       head    |-> RB_GetNextIndex(rb.head, RP_LOG_RING_BUFFER_CNT),
                       tail    |-> rb.tail,
                       count   |-> U16(rb.count + 1)]]

\* Returns the return value and the ring buffer afterwards.
RB_Push(rb, data, length) ==
    IF RB_IsFull(rb)
    THEN [ret |-> -1, rb |-> rb]
    ELSE LET len == ClampLength(length)
             e == [data   |-> Overlay(rb.entries[rb.head].data, 0,
                                      Bytes(data, len, Undef), 0),
                   length |-> len]
         IN  [ret |-> 0,
              rb  |-> [entries |-> [rb.entries EXCEPT ![rb.head] = e],
                       head    |-> RB_GetNextIndex(rb.head, RP_LOG_RING_BUFFER_CNT),
                       tail    |-> rb.tail,
                       count   |-> U16(rb.count + 1)]]

\* Mutant: the newest record (the slot before head) is read instead of the
\* oldest
RB_Pop_Newest(rb, data) ==
    IF RB_IsEmpty(rb)
    THEN [ret |-> -1, rb |-> rb, data |-> data, length |-> 0]
    ELSE LET src == (rb.head + RP_LOG_RING_BUFFER_CNT - 1) % RP_LOG_RING_BUFFER_CNT
             len == rb.entries[src].length
         IN  [ret    |-> 0,
              data   |-> Overlay(data, 0, Bytes(rb.entries[src].data, len, 0), Undef),
              length |-> len,
              rb     |-> [entries |-> rb.entries,
                          head    |-> rb.head,
                          tail    |-> RB_GetNextIndex(rb.tail, RP_LOG_RING_BUFFER_CNT),
                          count   |-> U16(rb.count - 1)]]

\* Mutant: tail is not advanced
RB_Pop_KeepsTail(rb, data) ==
    IF RB_IsEmpty(rb)
    THEN [ret |-> -1, rb |-> rb, data |-> data, length |-> 0]
    ELSE LET len == rb.entries[rb.tail].length
         IN  [ret    |-> 0,
              data   |-> Overlay(data, 0, Bytes(rb.entries[rb.tail].data, len, 0),
                                 Undef),
              length |-> len,
              rb     |-> [rb EXCEPT !.count = U16(rb.count - 1)]]

\* Returns the return value, the caller's array and *length afterwards, and
\* the ring buffer afterwards.  data is the caller's array before the call.
RB_Pop(rb, data) ==
    IF RB_IsEmpty(rb)
    THEN [ret |-> -1, rb |-> rb, data |-> data, length |-> 0]
    ELSE LET len == rb.entries[rb.tail].length
         IN  [ret    |-> 0,
              data   |-> Overlay(data, 0, Bytes(rb.entries[rb.tail].data, len, 0),
                                 Undef),
              length |-> len,
              rb     |-> [entries |-> rb.entries,
                          head    |-> rb.head,
                          tail    |-> RB_GetNextIndex(rb.tail, RP_LOG_RING_BUFFER_CNT),
                          count   |-> U16(rb.count - 1)]]

-----------------------------------------------------------------------------
(* RP_Log_Write                                                            *)

\* Mutant: the FATAL_TO_WARN case compares with >= instead of >
LevelFilter_WarnExcluded(output_range, level) ==
    CASE output_range = RP_LOG_OUTPUT_FATAL_ONLY     -> ~(level # RP_LOG_LEVEL_FATAL)
      [] output_range = RP_LOG_OUTPUT_FATAL_TO_ERROR -> ~(level > RP_LOG_LEVEL_ERROR)
      [] output_range = RP_LOG_OUTPUT_FATAL_TO_WARN  -> ~(level >= RP_LOG_LEVEL_WARN)
      [] output_range = RP_LOG_OUTPUT_FATAL_TO_INFO  -> ~(level > RP_LOG_LEVEL_INFO)
      [] output_range = RP_LOG_OUTPUT_FATAL_TO_DEBUG -> ~(level > RP_LOG_LEVEL_DEBUG)
      [] OTHER                                       -> TRUE

\* The switch on config_param.output_range: TRUE when the call goes on,
\* FALSE when it returns -1.
LevelFilter(output_range, level) ==
    CASE output_range = RP_LOG_OUTPUT_FATAL_ONLY     -> ~(level # RP_LOG_LEVEL_FATAL)
      [] output_range = RP_LOG_OUTPUT_FATAL_TO_ERROR -> ~(level > RP_LOG_LEVEL_ERROR)
      [] output_range = RP_LOG_OUTPUT_FATAL_TO_WARN  -> ~(level > RP_LOG_LEVEL_WARN)
      [] output_range = RP_LOG_OUTPUT_FATAL_TO_INFO  -> ~(level > RP_LOG_LEVEL_INFO)
      [] output_range = RP_LOG_OUTPUT_FATAL_TO_DEBUG -> ~(level > RP_LOG_LEVEL_DEBUG)
      [] OTHER                                       -> TRUE

\* The file name extraction: the part of file behind its last '\' if it has
\* one, otherwise behind its last '/' if it has one, otherwise file itself.
Filename(file) ==
    LET bs == strrchr(file, 92)
        sl == strrchr(file, 47)
    IN  IF bs # 0 THEN SubSeq(file, bs + 1, Len(file))
        ELSE IF sl # 0 THEN SubSeq(file, sl + 1, Len(file))
        ELSE file

\* What "[%lu] " renders to
TimestampText(t) == <<91>> \o Dec(t) \o <<93, 32>>

\* Mutant: the format lacks the space behind the colon
LocationText_NoSpace(level, filename, line) ==
    <<91>> \o g_level_names[level + 1] \o <<93, 91>> \o filename \o <<58>>
           \o Dec(line) \o <<93, 58>>

\* What "[%s][%s:%d]: " renders to
LocationText(level, filename, line) ==
    <<91>> \o g_level_names[level + 1] \o <<93, 91>> \o filename \o <<58>>
           \o Dec(line) \o <<93, 58, 32>>

\* Mutant: the guard cuts to RP_LOG_ENTRY_MAX_SIZE - 2
OverflowGuard_CutsToMaxMinus2(len) ==
    IF len >= RP_LOG_ENTRY_MAX_SIZE - 2 THEN RP_LOG_ENTRY_MAX_SIZE - 2 ELSE len

\* Mutant: the guard compares with > instead of >=
OverflowGuard_Strict(len) ==
    IF len > RP_LOG_ENTRY_MAX_SIZE - 2 THEN RP_LOG_ENTRY_MAX_SIZE - 3 ELSE len

\* The length after the overflow guard
OverflowGuard(len) ==
    IF len >= RP_LOG_ENTRY_MAX_SIZE - 2 THEN RP_LOG_ENTRY_MAX_SIZE - 3 ELSE len

\* The formatting part of RP_Log_Write: the local array `buffer` and `len`
\* as they are when RB_Push is called.  msg is what the format and its
\* arguments render to; eof is the library's answer to a size above INT_MAX.
FormatRecord(cfg, t, level, file, line, msg, eof) ==
    LET s1 == IF cfg.use_timestamp # 0
              THEN snprintf(<<>>, 0, RP_LOG_ENTRY_MAX_SIZE - 0, TimestampText(t), eof)
              ELSE [buf |-> <<>>, n |-> 0, oob |-> FALSE]
        len1 == 0 + s1.n
        s2 == snprintf(s1.buf, len1, RP_LOG_ENTRY_MAX_SIZE - len1,
                       LocationText(level, Filename(file), line), eof)
        len2 == len1 + s2.n
        s3 == snprintf(s2.buf, len2, RP_LOG_ENTRY_MAX_SIZE - len2, msg, eof)
        len3 == len2 + s3.n
        len4 == OverflowGuard(len3)
        b4 == Overlay(s3.buf, len4, <<13, 10>>, Undef)
    IN  [buffer |-> b4, len |-> len4 + 2, oob |-> s1.oob \/ s2.oob \/ s3.oob]

\* RP_Log_Write(log, level, file, line, format, ...) with log = &g_rp_log:
\* the return value, the ring buffer afterwards and the record handed to
\* RB_Push (empty when the level filter returned first).
RP_Log_Write(cfg, rb, t, level, file, line, msg, eof) ==
    IF ~LevelFilter(cfg.output_range, level)
    THEN [ret |-> -1, rb |-> rb, rec |-> <<>>, oob |-> FALSE]
    ELSE LET f == FormatRecord(cfg, t, level, file, line, msg, eof)
             p == RB_Push(rb, f.buffer, U16(f.len))
         IN  [ret |-> IF p.ret # 0 THEN -1 ELSE 0,
              rb  |-> p.rb,
              rec |-> Bytes(f.buffer, f.len, Undef),
              oob |-> f.oob]

-----------------------------------------------------------------------------
(* RP_Log_Work, RP_Log_GetCount, RP_Log_Flush                              *)

\* Mutant: the test of what RP_Log_Transmit returns is inverted
RP_Log_Work_Inverted(rb, accepted) ==
    LET p == RB_Pop(rb, <<>>)
    IN  IF p.ret = 0
        THEN IF accepted
             THEN LET q == RB_Push(p.rb, p.data, p.length)
                  IN  [rb |-> q.rb, popped |-> TRUE, transmit |-> TRUE,
                       rec |-> Bytes(p.data, p.length, Undef), repush |-> q.ret]
             ELSE [rb |-> p.rb, popped |-> TRUE, transmit |-> TRUE,
                   rec |-> Bytes(p.data, p.length, Undef), repush |-> 0]
        ELSE [rb |-> p.rb, popped |-> FALSE, transmit |-> FALSE,
              rec |-> <<>>, repush |-> 0]

\* Mutant: a record whose send was refused is not put back
RP_Log_Work_NoRequeue(rb, accepted) ==
    LET p == RB_Pop(rb, <<>>)
    IN  IF p.ret = 0
        THEN [rb |-> p.rb, popped |-> TRUE, transmit |-> TRUE,
              rec |-> Bytes(p.data, p.length, Undef), repush |-> 0]
        ELSE [rb |-> p.rb, popped |-> FALSE, transmit |-> FALSE,
              rec |-> <<>>, repush |-> 0]

\* RP_Log_Work(log) with log = &g_rp_log.  accepted tells whether
\* RP_Log_Transmit returns 0 if it is called.  Result: the ring buffer
\* afterwards, whether RB_Pop returned 0, whether RP_Log_Transmit was called
\* and with which bytes, and the return value of the second RB_Push.
RP_Log_Work(rb, accepted) ==
    LET p == RB_Pop(rb, <<>>)
    IN  IF p.ret = 0
        THEN IF ~accepted
             THEN LET q == RB_Push(p.rb, p.data, p.length)
                  IN  [rb |-> q.rb, popped |-> TRUE, transmit |-> TRUE,
                       rec |-> Bytes(p.data, p.length, Undef), repush |-> q.ret]
             ELSE [rb |-> p.rb, popped |-> TRUE, transmit |-> TRUE,
                   rec |-> Bytes(p.data, p.length, Undef), repush |-> 0]
        ELSE [rb |-> p.rb, popped |-> FALSE, transmit |-> FALSE,
              rec |-> <<>>, repush |-> 0]

RP_Log_GetCount(rb) == rb.count

\* Mutant: only count is reset
RP_Log_Flush_CountOnly(rb) == [rb EXCEPT !.count = 0]

\* memset(&log->ring_buffer, 0, sizeof(RP_LogRingBuffer_t))
RP_Log_Flush(rb) == ZeroRingBuffer

-----------------------------------------------------------------------------
(* History helpers (not program state)                                     *)

\* The bytes of the record held in slot i
SlotRecord(rb, i) == Bytes(rb.entries[i].data, rb.entries[i].length, 0)

\* The buffered records, oldest first: the count slots starting at tail
Buffered(rb) ==
    [k \in 1..Min(rb.count, RP_LOG_RING_BUFFER_CNT) |->
        SlotRecord(rb, (rb.tail + k - 1) % RP_LOG_RING_BUFFER_CNT)]

Range(s) == {s[i] : i \in 1..Len(s)}

\* ASCII text used as inputs
TextTestC == <<116, 101, 115, 116, 46, 99>>                  \* "test.c"
TextMsg == <<109, 115, 103>>                                 \* "msg"
LongMsg(n) == [i \in 1..n |-> 97 + (i % 26)]

\* An execution context that is in no call: pc is its position, op the API
\* call it is in, data/length its local array and length, slot the slot a
\* memcpy in progress works on, reg the value it has loaded and not yet
\* stored back, ret what its last call of RB_Push or RB_Pop returned; calls,
\* npush and npop count its API calls and the returns of 0 from RB_Push and
\* RB_Pop (history).
Idle == [pc |-> "idle", op |-> "none", data |-> <<>>, length |-> 0, slot |-> 0,
         reg |-> 0, ret |-> 0, calls |-> 0, npush |-> 0, npop |-> 0]

\* The contexts that log (an application task, and a second task or an
\* interrupt handler) and the log thread that calls work
Producers == {"p1", "p2"}
Consumers == {"c"}
ThreadIds == Producers \cup Consumers

NoCall == [op |-> "init", ret |-> 0, rec |-> <<>>, accepted |-> FALSE,
           level |-> 0, line |-> 0, before |-> 0, oob |-> FALSE]

-----------------------------------------------------------------------------
(* Calls executed one at a time                                            *)

\* The n-th write call of a behaviour is made from source line n, so that
\* the records of one behaviour differ.
CallLine(n) == n

DefaultConfig ==
    [output_range |-> RP_LOG_OUTPUT_ALL, use_timestamp |-> 1, rtt_use_color |-> 1]

InfoStatement == [level |-> RP_LOG_LEVEL_INFO, file |-> TextTestC, msg |-> TextMsg]

\* The second producer context logs another statement: RP_LOG_ERROR("msg")
ErrorStatement == [level |-> RP_LOG_LEVEL_ERROR, file |-> TextTestC, msg |-> TextMsg]

\* The statement context t executes
StatementOf(t) == IF t = "p2" THEN ErrorStatement ELSE arg

\* g_rp_log after its initialiser, before any call
Constructed ==
    /\ config_param = DefaultConfig
    /\ ring_buffer = ZeroRingBuffer
    /\ last = NoCall
    /\ ncalls = 0 /\ nfail = 0 /\ nflush = 0 /\ steps = 0
    /\ pushed = <<>> /\ sent = <<>> /\ flushed = {}
    /\ threads = [t \in ThreadIds |-> Idle]

\* One call of write, made from the next source line
WriteBody ==
    /\ \E line \in {CallLine(ncalls + 1)} : \E eof \in BOOLEAN :
         LET r == RP_Log_Write(config_param, ring_buffer, tick,
                               arg.level, arg.file, line, arg.msg, eof)
         IN  /\ ring_buffer' = r.rb
             /\ last' = [op |-> "write", ret |-> r.ret, rec |-> r.rec,
                         accepted |-> FALSE, level |-> arg.level, line |-> line,
                         before |-> RP_Log_GetCount(ring_buffer), oob |-> r.oob]
             /\ pushed' = IF r.ret = 0 THEN Append(pushed, r.rec) ELSE pushed
    /\ ncalls' = ncalls + 1
    /\ UNCHANGED <<config_param, tick, arg, nfail, nflush, sent, flushed, threads>>

\* One call of work; accepted is what the sink answers if it is asked
WorkBody(accepted) ==
    /\ \E r \in {RP_Log_Work(ring_buffer, accepted)} :
           /\ ring_buffer' = r.rb
           /\ last' = [op |-> "work", ret |-> IF r.popped THEN 0 ELSE -1,
                       rec |-> r.rec, accepted |-> r.transmit /\ accepted,
                       level |-> 0, line |-> 0,
                       before |-> RP_Log_GetCount(ring_buffer), oob |-> FALSE]
           /\ sent' = IF r.transmit /\ accepted THEN Append(sent, r.rec) ELSE sent
           /\ nfail' = IF r.transmit /\ ~accepted THEN nfail + 1 ELSE nfail
    /\ UNCHANGED <<config_param, tick, arg, ncalls, nflush, pushed, flushed, threads>>

\* One call of flush
FlushBody ==
    /\ ring_buffer' = RP_Log_Flush(ring_buffer)
    /\ last' = [op |-> "flush", ret |-> 0, rec |-> <<>>, accepted |-> FALSE,
                level |-> 0, line |-> 0,
                before |-> RP_Log_GetCount(ring_buffer), oob |-> FALSE]
    /\ flushed' = flushed \cup Range(pushed)
    /\ pushed' = <<>>
    /\ sent' = <<>>
    /\ nflush' = nflush + 1
    /\ UNCHANGED <<config_param, tick, arg, ncalls, nfail, threads>>

\* Spec bounds a behaviour in two parts: up to MaxPre write calls (and any
\* number of work calls) while every send is accepted and flush is not
\* called; then, counted by steps from the first refused send or flush on,
\* up to MaxCalls calls of any kind.
Write ==
    /\ IF steps = 0 THEN ncalls < MaxPre ELSE steps < MaxCalls
    /\ WriteBody
    /\ steps' = IF steps = 0 THEN 0 ELSE steps + 1

Work ==
    \E accepted \in BOOLEAN :
      LET counted == steps > 0 \/ (~RB_IsEmpty(ring_buffer) /\ ~accepted)
      IN  /\ counted => steps < MaxCalls
          /\ WorkBody(accepted)
          /\ steps' = IF counted THEN steps + 1 ELSE 0

Flush ==
    /\ steps < MaxCalls
    /\ FlushBody
    /\ steps' = steps + 1

\* Spec: the facility as constructed (every level admitted, timestamps on),
\* one producer logging "msg" at INFO from test.c, tick counter at 0.
Init ==
    /\ Constructed
    /\ tick = 0
    /\ arg = InfoStatement

Next == Write \/ Work \/ Flush

Spec == Init /\ [][Next]_vars

-----------------------------------------------------------------------------
(* SpecW: one log statement, drawn from a wider set, on the constructed    *)
(* facility; the application sets config_param once before its first call. *)

TextSrcSlashTestC == <<115, 114, 99, 47, 116, 101, 115, 116, 46, 99>>     \* "src/test.c"
TextSrcBackslashTestC == <<115, 114, 99, 92, 116, 101, 115, 116, 46, 99>> \* "src\test.c"
TextSlashThenBackslash == <<97, 47, 98, 92, 116, 46, 99>>                 \* "a/b\t.c"
TextBackslashThenSlash == <<97, 92, 98, 47, 116, 46, 99>>                 \* "a\b/t.c"

\* A file name that alone nearly fills a record: "ff...f.c"
LongFile == [i \in 1..LongFileLen |-> 102] \o <<46, 99>>

FilesW == {TextTestC, TextSrcSlashTestC, TextSrcBackslashTestC,
           TextSlashThenBackslash, TextBackslashThenSlash, LongFile}

MsgLensW == {0} \cup (MsgLenLo..MsgLenHi) \cup {MsgLenMax}

StatementsW ==
    {[level |-> l, file |-> TextTestC, msg |-> TextMsg] : l \in RP_LogLevel_t}
    \cup {[level |-> RP_LOG_LEVEL_INFO, file |-> f, msg |-> TextMsg] : f \in FilesW}
    \cup {[level |-> RP_LOG_LEVEL_INFO, file |-> TextTestC, msg |-> LongMsg(n)] :
            n \in MsgLensW}

\* Values of the tick counter with 1, 2 and 10 digits
TicksW == {0, 10, 2147483647}

\* The application assigns g_rp_log.config_param before its first call.
Configure ==
    /\ steps = 0
    /\ last.op = "init"
    /\ \E r \in RP_LogOutputRange_t : \E ts \in {0, 1} :
         config_param' = [output_range |-> r, use_timestamp |-> ts,
                          rtt_use_color |-> config_param.rtt_use_color]
    /\ last' = [NoCall EXCEPT !.op = "config"]
    /\ UNCHANGED <<ring_buffer, tick, arg, ncalls, nfail, nflush, steps,
                   pushed, sent, flushed, threads>>

WriteW ==
    /\ steps < MaxCallsW
    /\ WriteBody
    /\ steps' = steps + 1

WorkW ==
    /\ steps < MaxCallsW
    /\ \E accepted \in BOOLEAN : WorkBody(accepted)
    /\ steps' = steps + 1

InitW ==
    /\ Constructed
    /\ tick \in TicksW
    /\ arg \in StatementsW

NextW == Configure \/ WriteW \/ WorkW

SpecW == InitW /\ [][NextW]_vars

-----------------------------------------------------------------------------
(* SpecConc: write in the application task and work in the log thread,     *)
(* interleaved.  head, tail and count are volatile uint16_t: every access  *)
(* in the source is one load or one store, and a step of a thread is one   *)
(* such access or one half of a memcpy.  `x = f(x)` and `x++` are a load   *)
(* into reg followed by a store.                                           *)

SetThread(t, r) == threads' = [threads EXCEPT ![t] = r]

\* What SpecConc leaves alone throughout
FrameC == UNCHANGED <<config_param, tick, arg, last, nfail, nflush, steps,
                      pushed, sent, flushed>>

At(t, pc) == threads[t].pc = pc

\* The first half of a memcpy of n bytes
Half(n) == n \div 2

\* RB_Push or RB_Pop returns ret; pc is where its caller goes on
Return(t, ret, pc) ==
    [threads[t] EXCEPT !.pc = pc, !.ret = ret, !.op = IF pc = "idle" THEN "none" ELSE @]

\* write is called: level filter, formatting into the local buffer, and the
\* call of RB_Push
WriteEnter(t) ==
    /\ t \in Producers /\ At(t, "idle")
    /\ threads[t].calls < MaxWritesC
    /\ \E line \in {CallLine(ncalls + 1)} : \E eof \in BOOLEAN :
         IF ~LevelFilter(config_param.output_range, StatementOf(t).level)
         THEN SetThread(t, [threads[t] EXCEPT !.ret = -1, !.calls = @ + 1])
         ELSE LET f == FormatRecord(config_param, tick, StatementOf(t).level,
                                    StatementOf(t).file, line,
                                    StatementOf(t).msg, eof)
              IN  SetThread(t, [threads[t] EXCEPT
                                  !.pc = "push_full", !.op = "write",
                                  !.data = f.buffer, !.length = U16(f.len),
                                  !.calls = @ + 1])
    /\ ncalls' = ncalls + 1
    /\ UNCHANGED ring_buffer
    /\ FrameC

\* RB_Push: if (RB_IsFull(rb)) return -1; then the clamp of length
PushIsFull(t) ==
    /\ At(t, "push_full")
    /\ IF RB_IsFull(ring_buffer)
       THEN SetThread(t, Return(t, -1, "idle"))
       ELSE SetThread(t, [threads[t] EXCEPT !.pc = "push_copy_lo",
                                            !.length = ClampLength(@)])
    /\ UNCHANGED <<ring_buffer, ncalls>>
    /\ FrameC

\* memcpy(rb->entries[rb->head].data, data, length): head is loaded, the
\* first half of the bytes is stored
PushCopyLo(t) ==
    /\ At(t, "push_copy_lo")
    /\ LET h == ring_buffer.head
           n == threads[t].length
       IN  /\ ring_buffer' = [ring_buffer EXCEPT !.entries[h].data =
                 Overlay(@, 0, Bytes(threads[t].data, Half(n), Undef), 0)]
           /\ SetThread(t, [threads[t] EXCEPT !.pc = "push_copy_hi", !.slot = h])
    /\ UNCHANGED ncalls
    /\ FrameC

\* the second half of the bytes is stored
PushCopyHi(t) ==
    /\ At(t, "push_copy_hi")
    /\ LET n == threads[t].length
       IN  ring_buffer' = [ring_buffer EXCEPT !.entries[threads[t].slot].data =
             Overlay(@, Half(n),
                     SubSeq(Bytes(threads[t].data, n, Undef), Half(n) + 1, n), 0)]
    /\ SetThread(t, [threads[t] EXCEPT !.pc = "push_len"])
    /\ UNCHANGED ncalls
    /\ FrameC

\* rb->entries[rb->head].length = length
PushLen(t) ==
    /\ At(t, "push_len")
    /\ ring_buffer' = [ring_buffer EXCEPT !.entries[ring_buffer.head].length =
                                            threads[t].length]
    /\ SetThread(t, [threads[t] EXCEPT !.pc = "push_head_load"])
    /\ UNCHANGED ncalls
    /\ FrameC

\* rb->head = RB_GetNextIndex(rb->head, ...): the load
PushHeadLoad(t) ==
    /\ At(t, "push_head_load")
    /\ SetThread(t, [threads[t] EXCEPT !.pc = "push_head_store",
                                       !.reg = ring_buffer.head])
    /\ UNCHANGED <<ring_buffer, ncalls>>
    /\ FrameC

\* rb->head = RB_GetNextIndex(rb->head, ...): the store
PushHeadStore(t) ==
    /\ At(t, "push_head_store")
    /\ ring_buffer' = [ring_buffer EXCEPT !.head =
                         RB_GetNextIndex(threads[t].reg, RP_LOG_RING_BUFFER_CNT)]
    /\ SetThread(t, [threads[t] EXCEPT !.pc = "push_count_load"])
    /\ UNCHANGED ncalls
    /\ FrameC

\* rb->count++: the load
PushCountLoad(t) ==
    /\ At(t, "push_count_load")
    /\ SetThread(t, [threads[t] EXCEPT !.pc = "push_count_store",
                                       !.reg = ring_buffer.count])
    /\ UNCHANGED <<ring_buffer, ncalls>>
    /\ FrameC

\* rb->count++: the store; return 0, and with it write or work returns
PushCountStore(t) ==
    /\ At(t, "push_count_store")
    /\ ring_buffer' = [ring_buffer EXCEPT !.count = U16(threads[t].reg + 1)]
    /\ SetThread(t, [Return(t, 0, "idle") EXCEPT !.npush = @ + 1])
    /\ UNCHANGED ncalls
    /\ FrameC

\* work is called: its locals are not initialised; the call of RB_Pop
WorkEnter(t) ==
    /\ t \in Consumers /\ At(t, "idle")
    /\ threads[t].calls < MaxWorksC
    /\ SetThread(t, [threads[t] EXCEPT !.pc = "pop_empty", !.op = "work",
                                       !.data = <<>>, !.length = Undef,
                                       !.calls = @ + 1])
    /\ UNCHANGED <<ring_buffer, ncalls>>
    /\ FrameC

\* RB_Pop: if (RB_IsEmpty(rb)) return -1, and work returns
PopIsEmpty(t) ==
    /\ At(t, "pop_empty")
    /\ IF RB_IsEmpty(ring_buffer)
       THEN SetThread(t, Return(t, -1, "idle"))
       ELSE SetThread(t, [threads[t] EXCEPT !.pc = "pop_len"])
    /\ UNCHANGED <<ring_buffer, ncalls>>
    /\ FrameC

\* *length = rb->entries[rb->tail].length
PopLen(t) ==
    /\ At(t, "pop_len")
    /\ SetThread(t, [threads[t] EXCEPT
                       !.pc = "pop_copy_lo",
                       !.length = ring_buffer.entries[ring_buffer.tail].length])
    /\ UNCHANGED <<ring_buffer, ncalls>>
    /\ FrameC

\* memcpy(data, rb->entries[rb->tail].data, *length): tail is loaded, the
\* first half of the bytes is copied
PopCopyLo(t) ==
    /\ At(t, "pop_copy_lo")
    /\ LET s == ring_buffer.tail
           n == threads[t].length
       IN  SetThread(t, [threads[t] EXCEPT
                           !.pc = "pop_copy_hi", !.slot = s,
                           !.data = Overlay(@, 0,
                                      Bytes(ring_buffer.entries[s].data, Half(n), 0),
                                      Undef)])
    /\ UNCHANGED <<ring_buffer, ncalls>>
    /\ FrameC

\* the second half of the bytes is copied
PopCopyHi(t) ==
    /\ At(t, "pop_copy_hi")
    /\ LET n == threads[t].length
           src == ring_buffer.entries[threads[t].slot].data
       IN  SetThread(t, [threads[t] EXCEPT
                           !.pc = "pop_tail_load",
                           !.data = Overlay(@, Half(n),
                                      SubSeq(Bytes(src, n, 0), Half(n) + 1, n),
                                      Undef)])
    /\ UNCHANGED <<ring_buffer, ncalls>>
    /\ FrameC

\* rb->tail = RB_GetNextIndex(rb->tail, ...): the load
PopTailLoad(t) ==
    /\ At(t, "pop_tail_load")
    /\ SetThread(t, [threads[t] EXCEPT !.pc = "pop_tail_store",
                                       !.reg = ring_buffer.tail])
    /\ UNCHANGED <<ring_buffer, ncalls>>
    /\ FrameC

\* rb->tail = RB_GetNextIndex(rb->tail, ...): the store
PopTailStore(t) ==
    /\ At(t, "pop_tail_store")
    /\ ring_buffer' = [ring_buffer EXCEPT !.tail =
                         RB_GetNextIndex(threads[t].reg, RP_LOG_RING_BUFFER_CNT)]
    /\ SetThread(t, [threads[t] EXCEPT !.pc = "pop_count_load"])
    /\ UNCHANGED ncalls
    /\ FrameC

\* rb->count--: the load
PopCountLoad(t) ==
    /\ At(t, "pop_count_load")
    /\ SetThread(t, [threads[t] EXCEPT !.pc = "pop_count_store",
                                       !.reg = ring_buffer.count])
    /\ UNCHANGED <<ring_buffer, ncalls>>
    /\ FrameC

\* rb->count--: the store; return 0 to work, which calls RP_Log_Transmit
PopCountStore(t) ==
    /\ At(t, "pop_count_store")
    /\ ring_buffer' = [ring_buffer EXCEPT !.count = U16(threads[t].reg - 1)]
    /\ SetThread(t, [Return(t, 0, "transmit") EXCEPT !.npop = @ + 1])
    /\ UNCHANGED ncalls
    /\ FrameC

\* RP_Log_Transmit(buffer, length) answers: 0 and work returns, or not 0 and
\* work calls RB_Push with the record
Transmit(t) ==
    /\ At(t, "transmit")
    /\ \E accepted \in BOOLEAN :
         SetThread(t, [threads[t] EXCEPT
                         !.pc = IF accepted THEN "idle" ELSE "push_full",
                         !.op = IF accepted THEN "none" ELSE @])
    /\ UNCHANGED <<ring_buffer, ncalls>>
    /\ FrameC

\* The ring buffer after k write calls of InfoStatement made in a row on the
\* constructed facility from lines 1..k (k <= RP_LOG_RING_BUFFER_CNT)
Filled(k) ==
    [entries |-> [i \in 0..(RP_LOG_RING_BUFFER_CNT - 1) |->
        IF i < k
        THEN LET f == FormatRecord(DefaultConfig, 0, InfoStatement.level,
                                   InfoStatement.file, CallLine(i + 1),
                                   InfoStatement.msg, FALSE)
             IN  [data |-> Bytes(f.buffer, f.len, Undef), length |-> f.len]
        ELSE ZeroEntry],
     head |-> k % RP_LOG_RING_BUFFER_CNT, tail |-> 0, count |-> k]

\* SpecConc starts when the producer has made 0 or MaxFillC write calls and
\* the log thread has not run yet.
InitConc ==
    /\ config_param = DefaultConfig
    /\ tick = 0
    /\ arg = InfoStatement
    /\ \E k \in {0, Min(MaxFillC, RP_LOG_RING_BUFFER_CNT)} :
         /\ ring_buffer = Filled(k)
         /\ ncalls = k
         /\ threads = [t \in ThreadIds |->
                         IF t = "p1" THEN [Idle EXCEPT !.npush = k] ELSE Idle]
    /\ last = NoCall
    /\ nfail = 0 /\ nflush = 0 /\ steps = 0
    /\ pushed = <<>> /\ sent = <<>> /\ flushed = {}

\* The contexts of SpecConc: one producer and the log thread
ThreadsConc == {"p1"} \cup Consumers

NextConc ==
    \E t \in ThreadsConc :
        \/ WriteEnter(t)
        \/ PushIsFull(t)
        \/ PushCopyLo(t)
        \/ PushCopyHi(t)
        \/ PushLen(t)
        \/ PushHeadLoad(t)
        \/ PushHeadStore(t)
        \/ PushCountLoad(t)
        \/ PushCountStore(t)
        \/ WorkEnter(t)
        \/ PopIsEmpty(t)
        \/ PopLen(t)
        \/ PopCopyLo(t)
        \/ PopCopyHi(t)
        \/ PopTailLoad(t)
        \/ PopTailStore(t)
        \/ PopCountLoad(t)
        \/ PopCountStore(t)
        \/ Transmit(t)

SpecConc == InitConc /\ [][NextConc]_vars

-----------------------------------------------------------------------------
(* SpecProd: two producer contexts call write, interleaved at the same     *)
(* granularity; the log thread does not run.                               *)

InitProd == InitConc

NextProd ==
    \E t \in Producers :
        \/ WriteEnter(t)
        \/ PushIsFull(t)
        \/ PushCopyLo(t)
        \/ PushCopyHi(t)
        \/ PushLen(t)
        \/ PushHeadLoad(t)
        \/ PushHeadStore(t)
        \/ PushCountLoad(t)
        \/ PushCountStore(t)

SpecProd == InitProd /\ [][NextProd]_vars

-----------------------------------------------------------------------------
(* SpecRT: RB_Push of a record of a given length on an empty buffer,       *)
(* followed by RB_Pop.  The empty buffer is the constructed one or one     *)
(* that has been filled and drained, whose slots hold old records.         *)

\* The ring buffer after k write calls as in Filled(k) and k work calls whose
\* sends were accepted
Drained(k) ==
    [Filled(k) EXCEPT !.tail = k % RP_LOG_RING_BUFFER_CNT, !.count = 0]

\* A record of n bytes, none of them 0
RecordRT(n) == [i \in 1..n |-> 1 + ((7 * i) % 251)]

LensRT == (0..ShortLenRT) \cup (LongLenLoRT..LongLenHiRT) \cup {HugeLenRT}

\* The record pushed is held in arg.msg
PushRT ==
    /\ last.op = "init"
    /\ LET p == RB_Push(ring_buffer, arg.msg, U16(Len(arg.msg)))
       IN  /\ ring_buffer' = p.rb
           /\ last' = [NoCall EXCEPT !.op = "push", !.ret = p.ret,
                                     !.before = ring_buffer.head]
    /\ UNCHANGED <<config_param, tick, arg, ncalls, nfail, nflush, steps,
                   pushed, sent, flushed, threads>>

PopRT ==
    /\ last.op = "push"
    /\ LET p == RB_Pop(ring_buffer, <<>>)
       IN  /\ ring_buffer' = p.rb
           /\ last' = [NoCall EXCEPT !.op = "pop", !.ret = p.ret,
                                     !.rec = Bytes(p.data, p.length, Undef),
                                     !.before = ring_buffer.tail]
    /\ UNCHANGED <<config_param, tick, arg, ncalls, nfail, nflush, steps,
                   pushed, sent, flushed, threads>>

InitRT ==
    /\ config_param = DefaultConfig
    /\ tick = 0
    /\ \E n \in LensRT : arg = [InfoStatement EXCEPT !.msg = RecordRT(n)]
    /\ \E k \in {0, 1, RP_LOG_RING_BUFFER_CNT} :
         /\ ring_buffer = Drained(k)
         /\ ncalls = k
    /\ last = NoCall
    /\ nfail = 0 /\ nflush = 0 /\ steps = 0
    /\ pushed = <<>> /\ sent = <<>> /\ flushed = {}
    /\ threads = [t \in ThreadIds |-> Idle]

NextRT == PushRT \/ PopRT

SpecRT == InitRT /\ [][NextRT]_vars

-----------------------------------------------------------------------------
(* SpecDrain: from some point on the sink accepts every send and no write  *)
(* succeeds; the log thread keeps calling work.  The point is any state    *)
(* that w successful write calls and j accepted sends lead to.             *)

\* The line of the record that slot i holds after w write calls made in a
\* row from lines 1..w, none refused: the last line <= w stored in slot i
LineInSlot(w, i) ==
    i + 1 + RP_LOG_RING_BUFFER_CNT * ((w - i - 1) \div RP_LOG_RING_BUFFER_CNT)

\* The ring buffer after w write calls of InfoStatement, all returning 0, and
\* j work calls whose sends were accepted (0 <= w - j <= RP_LOG_RING_BUFFER_CNT)
Written(w, j) ==
    [entries |-> [i \in 0..(RP_LOG_RING_BUFFER_CNT - 1) |->
        IF i < w
        THEN LET f == FormatRecord(DefaultConfig, 0, InfoStatement.level,
                                   InfoStatement.file, CallLine(LineInSlot(w, i)),
                                   InfoStatement.msg, FALSE)
             IN  [data |-> Bytes(f.buffer, f.len, Undef), length |-> f.len]
        ELSE ZeroEntry],
     head |-> w % RP_LOG_RING_BUFFER_CNT,
     tail |-> j % RP_LOG_RING_BUFFER_CNT,
     count |-> w - j]

\* pushed holds the records buffered at the point, oldest first
InitDrain ==
    /\ config_param = DefaultConfig
    /\ tick = 0
    /\ arg = InfoStatement
    /\ \E w \in 0..MaxWrittenD :
         \E j \in Max(0, w - RP_LOG_RING_BUFFER_CNT)..w :
           /\ ring_buffer = Written(w, j)
           /\ ncalls = w
           /\ pushed = Buffered(Written(w, j))
    /\ last = NoCall
    /\ nfail = 0 /\ nflush = 0 /\ steps = 0
    /\ sent = <<>> /\ flushed = {}
    /\ threads = [t \in ThreadIds |-> Idle]

\* The log thread's loop calls work; the sink accepts
WorkD ==
    /\ WorkBody(TRUE)
    /\ UNCHANGED steps

\* A write call that does not succeed: the buffer is full
WriteD ==
    /\ steps < MaxWritesD
    /\ RB_IsFull(ring_buffer)
    /\ WriteBody
    /\ steps' = steps + 1

NextDrain == WorkD \/ WriteD

\* The log thread runs `while (1) { g_rp_log.work(&g_rp_log); osDelay(1); }`
SpecDrain == InitDrain /\ [][NextDrain]_vars /\ WF_vars(WorkD)

-----------------------------------------------------------------------------
(* Step classification used by the properties                              *)

WriteStep == ncalls' = ncalls + 1
WorkStep == last'.op = "work" /\ ncalls' = ncalls /\ nflush' = nflush
FlushStep == nflush' = nflush + 1

\* The record a successful push has just stored: the slot at the old head
Stored == SlotRecord(ring_buffer', ring_buffer.head)

-----------------------------------------------------------------------------
(* Properties of the calls executed one at a time (Spec)                   *)

\* C1: in every state reached by write, work (the sink accepting or refusing)
\* and flush calls made one at a time, 0 <= count <= RP_LOG_RING_BUFFER_CNT
\* and head and tail are slot indices.
C1_IndicesInRange ==
    /\ ring_buffer.count \in 0..RP_LOG_RING_BUFFER_CNT
    /\ ring_buffer.head \in 0..(RP_LOG_RING_BUFFER_CNT - 1)
    /\ ring_buffer.tail \in 0..(RP_LOG_RING_BUFFER_CNT - 1)

\* A full buffer whose indices have wrapped, after a refused send
C1_Witness ==
    /\ ring_buffer.count = RP_LOG_RING_BUFFER_CNT
    /\ ring_buffer.head = ring_buffer.tail
    /\ ring_buffer.tail > 0
    /\ nfail > 0

\* C3: drop-newest on full.  A write call made while count is
\* RP_LOG_RING_BUFFER_CNT returns -1 and leaves head, tail, count and every
\* slot as they were; a write call made while count is smaller returns 0,
\* stores its record at head and raises count by one; so of the write calls
\* made in a row on the empty buffer exactly the first
\* RP_LOG_RING_BUFFER_CNT succeed.
C3_DropNewestOnFull ==
    /\ []((nfail = 0 /\ nflush = 0 /\ Len(sent) = 0) =>
            /\ Len(pushed) = Min(ncalls, RP_LOG_RING_BUFFER_CNT)
            /\ RP_Log_GetCount(ring_buffer) = Len(pushed))
    /\ [][WriteStep =>
            IF ring_buffer.count = RP_LOG_RING_BUFFER_CNT
            THEN last'.ret = -1 /\ ring_buffer' = ring_buffer
            ELSE /\ last'.ret = 0
                 /\ ring_buffer'.count = ring_buffer.count + 1
                 /\ Stored = last'.rec
                 /\ \A i \in 0..(RP_LOG_RING_BUFFER_CNT - 1) :
                      i # ring_buffer.head =>
                        ring_buffer'.entries[i] = ring_buffer.entries[i]]_vars

\* The 17th write call in a row has just been refused by the full buffer
C3_Witness ==
    /\ last.op = "write" /\ last.ret = -1
    /\ last.before = RP_LOG_RING_BUFFER_CNT
    /\ ring_buffer.count = RP_LOG_RING_BUFFER_CNT
    /\ Len(pushed) = RP_LOG_RING_BUFFER_CNT /\ Len(sent) = 0 /\ steps = 0

\* C4: strict FIFO.  While no send has been refused and flush has not been
\* called, the k-th record the sink got is the record the k-th successful
\* write stored (the records of a behaviour being pairwise different).
C4_Fifo ==
    (nfail = 0 /\ nflush = 0) =>
        /\ Len(sent) <= Len(pushed)
        /\ \A k \in 1..Len(sent) : sent[k] = pushed[k]
        /\ \A i, j \in 1..Len(pushed) : i # j => pushed[i] # pushed[j]

\* Three or more records sent in order with head wrapped around the array
C4_Witness ==
    /\ nfail = 0 /\ nflush = 0
    /\ Len(sent) >= 3
    /\ Len(pushed) > RP_LOG_RING_BUFFER_CNT
    /\ ring_buffer.head < ring_buffer.tail
    /\ last.op = "work" /\ last.accepted

\* C5: a work call whose send is refused leaves count as it was, and the
\* work call that follows it, if its send is accepted, sends that same
\* record, whatever the occupancy.
C5_RequeuedRecordIsSentNext ==
    [][/\ (WorkStep /\ last'.ret = 0 /\ ~last'.accepted) =>
             RP_Log_GetCount(ring_buffer') = RP_Log_GetCount(ring_buffer)
       /\ (last.op = "work" /\ last.ret = 0 /\ ~last.accepted
             /\ WorkStep /\ last'.accepted) =>
             last'.rec = last.rec]_vars

\* C9: after flush, also after a second flush in a row, count, head and tail
\* are 0; no record stored before a flush is handed to the sink after it;
\* and the write call that follows a flush succeeds and leaves the buffer as
\* a write on the newly constructed buffer does.
C9_FlushResets ==
    /\ [](last.op = "flush" =>
            /\ RP_Log_GetCount(ring_buffer) = 0
            /\ ring_buffer.head = 0 /\ ring_buffer.tail = 0)
    /\ []((last.op = "work" /\ last.ret = 0) => last.rec \notin flushed)
    /\ [](Range(sent) \cap flushed = {})
    /\ [][(last.op = "flush" /\ WriteStep) =>
            /\ last'.ret = 0
            /\ RP_Log_GetCount(ring_buffer') = 1
            /\ ring_buffer'.head = 1 /\ ring_buffer'.tail = 0
            /\ SlotRecord(ring_buffer', 0) = last'.rec
            /\ \A i \in 1..(RP_LOG_RING_BUFFER_CNT - 1) :
                 ring_buffer'.entries[i].length = 0
                 /\ ring_buffer'.entries[i].data = <<>>]_vars

\* A record written after two flushes in a row has been sent, the first
\* flush having discarded records
C9_Witness ==
    /\ nflush = 2 /\ flushed # {}
    /\ last.op = "work" /\ last.accepted
    /\ Len(pushed) = 1 /\ sent = pushed
    /\ steps = 4

\* C10: a work call whose send is refused does not lower count; a write call
\* made on the full buffer returns -1 and leaves it full, also after refused
\* sends; the write call that follows a flush, or a work call whose send was
\* accepted, returns 0.
C10_SaturatesUntilRelieved ==
    [][/\ (WorkStep /\ ~last'.accepted) =>
             RP_Log_GetCount(ring_buffer') = RP_Log_GetCount(ring_buffer)
       /\ (WriteStep /\ RP_Log_GetCount(ring_buffer) = RP_LOG_RING_BUFFER_CNT) =>
             last'.ret = -1
             /\ RP_Log_GetCount(ring_buffer') = RP_LOG_RING_BUFFER_CNT
       /\ (WriteStep /\ last.op = "flush") => last'.ret = 0
       /\ (WriteStep /\ last.op = "work" /\ last.accepted) => last'.ret = 0]_vars

\* The buffer was full, a send was refused, and the write after it failed
C10_Witness ==
    /\ last.op = "write" /\ last.ret = -1
    /\ last.before = RP_LOG_RING_BUFFER_CNT
    /\ nfail >= 1 /\ nflush = 0
    /\ ring_buffer.count = RP_LOG_RING_BUFFER_CNT

-----------------------------------------------------------------------------
(* Properties of write over the statements and configurations of SpecW     *)

\* The least severe level a configured range admits
ConfiguredMaximum(output_range) ==
    CASE output_range = RP_LOG_OUTPUT_FATAL_ONLY     -> RP_LOG_LEVEL_FATAL
      [] output_range = RP_LOG_OUTPUT_FATAL_TO_ERROR -> RP_LOG_LEVEL_ERROR
      [] output_range = RP_LOG_OUTPUT_FATAL_TO_WARN  -> RP_LOG_LEVEL_WARN
      [] output_range = RP_LOG_OUTPUT_FATAL_TO_INFO  -> RP_LOG_LEVEL_INFO
      [] output_range = RP_LOG_OUTPUT_FATAL_TO_DEBUG -> RP_LOG_LEVEL_DEBUG
      [] output_range = RP_LOG_OUTPUT_ALL            -> RP_LOG_LEVEL_TRACE

\* The whole text of the statement made from `line`, nothing cut:
\* timestamp segment (if configured), level and location, message
Rendered(line) ==
    (IF config_param.use_timestamp # 0 THEN TimestampText(tick) ELSE <<>>)
    \o LocationText(arg.level, Filename(arg.file), line)
    \o arg.msg

\* C6: write admits the message iff its level is at most the configured
\* maximum; a rejected write returns -1 and leaves the ring buffer as it was;
\* an admitted write on a buffer that is not full returns 0 and raises count
\* by one.
C6_LevelFilter ==
    [][WriteStep =>
         LET admitted == arg.level <= ConfiguredMaximum(config_param.output_range)
         IN  /\ ~admitted => (last'.ret = -1 /\ ring_buffer' = ring_buffer)
             /\ (admitted /\ ring_buffer.count < RP_LOG_RING_BUFFER_CNT) =>
                  /\ last'.ret = 0
                  /\ ring_buffer'.count = ring_buffer.count + 1]_vars

\* Under FATAL_TO_WARN an INFO write has returned -1 and count is still 0
C6_Witness ==
    /\ config_param.output_range = RP_LOG_OUTPUT_FATAL_TO_WARN
    /\ arg.level = RP_LOG_LEVEL_INFO
    /\ last.op = "write" /\ last.ret = -1
    /\ ring_buffer.count = 0

\* C7 as stated: a message whose prefix plus body exceeds
\* RP_LOG_ENTRY_MAX_SIZE is stored with length exactly RP_LOG_ENTRY_MAX_SIZE,
\* its last two bytes being "\r\n".
C7_TruncatedToMaxSize ==
    [][(WriteStep /\ last'.ret = 0
          /\ Len(Rendered(last'.line)) > RP_LOG_ENTRY_MAX_SIZE) =>
         LET len == ring_buffer'.entries[ring_buffer.head].length
         IN  /\ len = RP_LOG_ENTRY_MAX_SIZE
             /\ Stored[len - 1] = 13 /\ Stored[len] = 10]_vars

\* C7 as amended: such a message is stored with length exactly
\* RP_LOG_ENTRY_MAX_SIZE - 1, its last two bytes being "\r\n".
C7_TruncatedToMaxSizeMinus1 ==
    [][(WriteStep /\ last'.ret = 0
          /\ Len(Rendered(last'.line)) > RP_LOG_ENTRY_MAX_SIZE) =>
         LET len == ring_buffer'.entries[ring_buffer.head].length
         IN  /\ len = RP_LOG_ENTRY_MAX_SIZE - 1
             /\ Stored[len - 1] = 13 /\ Stored[len] = 10]_vars

\* A statement rendering to more than RP_LOG_ENTRY_MAX_SIZE bytes is buffered
C7_Witness ==
    /\ last.op = "write" /\ last.ret = 0
    /\ Len(Rendered(last.line)) > RP_LOG_ENTRY_MAX_SIZE
    /\ ring_buffer.count = 1
    /\ ring_buffer.entries[0].length = RP_LOG_ENTRY_MAX_SIZE - 1

\* C8: the record write pushes is at most RP_LOG_ENTRY_MAX_SIZE long and ends
\* with "\r\n"; a text shorter than RP_LOG_ENTRY_MAX_SIZE - 2 is stored whole,
\* followed by "\r\n"; a text of RP_LOG_ENTRY_MAX_SIZE - 2 bytes or more is
\* cut: a proper beginning of it is stored, followed by "\r\n".
C8_TerminatorAlwaysFits ==
    [][(WriteStep /\ last'.ret = 0) =>
         LET text == Rendered(last'.line)
             len == ring_buffer'.entries[ring_buffer.head].length
         IN  /\ 2 <= len /\ len <= RP_LOG_ENTRY_MAX_SIZE
             /\ Len(Stored) = len
             /\ Stored[len - 1] = 13 /\ Stored[len] = 10
             /\ SubSeq(Stored, 1, len - 2) = SubSeq(text, 1, len - 2)
             /\ IF Len(text) < RP_LOG_ENTRY_MAX_SIZE - 2
                THEN len = Len(text) + 2
                ELSE len - 2 < Len(text)]_vars

\* A text of exactly RP_LOG_ENTRY_MAX_SIZE - 2 bytes has been cut and buffered
C8_Witness ==
    /\ last.op = "write" /\ last.ret = 0
    /\ Len(Rendered(last.line)) = RP_LOG_ENTRY_MAX_SIZE - 2
    /\ ring_buffer.entries[0].length < RP_LOG_ENTRY_MAX_SIZE
    /\ ring_buffer.count = 1

-----------------------------------------------------------------------------
(* Properties of write and work interleaved (SpecConc)                     *)

\* The returns of 0 from RB_Push and from RB_Pop so far
Pushes == threads["p1"].npush + threads["p2"].npush + threads["c"].npush
Pops == threads["p1"].npop + threads["p2"].npop + threads["c"].npop

Quiescent == \A t \in ThreadIds : threads[t].pc = "idle"

\* C2: when one producer's write and the log thread's work interleave at the
\* granularity of the loads and stores of head, tail and count, no increment
\* or decrement of count is lost: whenever no call is in progress, count is
\* the number of successful pushes minus the number of successful pops, it
\* is at most RP_LOG_RING_BUFFER_CNT, and head is count slots ahead of tail.
C2_NoLostUpdate ==
    Quiescent =>
        /\ ring_buffer.count = Pushes - Pops
        /\ ring_buffer.count <= RP_LOG_RING_BUFFER_CNT
        /\ ring_buffer.head =
             (ring_buffer.tail + ring_buffer.count) % RP_LOG_RING_BUFFER_CNT

-----------------------------------------------------------------------------
(* Properties of two writes interleaved (SpecProd)                         *)

\* The record the last write call of context t formatted
RecordOf(t) == Bytes(threads[t].data, threads[t].length, Undef)

\* Both producers have made exactly one write call, both returned 0, and no
\* call is in progress
BothWrote ==
    /\ Quiescent
    /\ \A t \in Producers : threads[t].calls = 1 /\ threads[t].ret = 0

\* The occupancy SpecProd started with: the write calls made before
InitialCount == ncalls - threads["p1"].calls - threads["p2"].calls

\* C11: when two write calls of two producer contexts interleave at the
\* granularity of the loads and stores of head and count and of the slot, and
\* both return 0, the two records are held in the two slots behind the ones
\* occupied before, no slot holds a mix of them, and count has grown by two.
C11_ConcurrentWritesKeepBoth ==
    BothWrote =>
        LET a == InitialCount % RP_LOG_RING_BUFFER_CNT
            b == (InitialCount + 1) % RP_LOG_RING_BUFFER_CNT
        IN  /\ ring_buffer.count = InitialCount + 2
            /\ {SlotRecord(ring_buffer, a), SlotRecord(ring_buffer, b)}
                 = {RecordOf("p1"), RecordOf("p2")}

-----------------------------------------------------------------------------
(* Properties of RB_Push followed by RB_Pop (SpecRT)                       *)

\* C12: on an empty buffer, RB_Push of a record R and RB_Pop right after it
\* both return 0; the record popped has the length
\* min(length(R), RP_LOG_ENTRY_MAX_SIZE), its bytes are the first that many
\* bytes of R, and the buffer is empty again.
C12_RoundTrip ==
    LET R == arg.msg
        n == Min(Len(R), RP_LOG_ENTRY_MAX_SIZE)
    IN  /\ last.op = "push" => last.ret = 0 /\ ring_buffer.count = 1
        /\ last.op = "pop" =>
             /\ last.ret = 0
             /\ Len(last.rec) = n
             /\ last.rec = SubSeq(R, 1, n)
             /\ ring_buffer.count = 0
             /\ ring_buffer.head = ring_buffer.tail

\* A record longer than RP_LOG_ENTRY_MAX_SIZE has gone through slot 0 of a
\* buffer that had been filled and drained
C12_Witness ==
    /\ last.op = "pop" /\ last.ret = 0
    /\ Len(arg.msg) > RP_LOG_ENTRY_MAX_SIZE
    /\ ncalls = RP_LOG_RING_BUFFER_CNT
    /\ last.before = 0

-----------------------------------------------------------------------------
(* Further properties of the calls executed one at a time (Spec)           *)

\* C13: a work call hands at most one record to the sink, the record held in
\* the slot at tail with its length, and moves tail by at most one slot; when
\* the buffer is not empty and the sink accepts, count goes down by one, tail
\* advances by one modulo RP_LOG_RING_BUFFER_CNT, head and the slots stay as
\* they are, and the records left are the ones behind the first, in order.
C13_WorkAdvancesByOne ==
    [][WorkStep =>
         LET rb == ring_buffer
             next == (rb.tail + 1) % RP_LOG_RING_BUFFER_CNT
         IN  /\ Len(sent') + nfail' <= Len(sent) + nfail + 1
             /\ ring_buffer'.tail \in {rb.tail, next}
             /\ (last'.ret = 0) = (rb.count > 0)
             /\ last'.ret = 0 =>
                  /\ last'.rec = SlotRecord(rb, rb.tail)
                  /\ Len(last'.rec) = rb.entries[rb.tail].length
             /\ (rb.count > 0 /\ last'.accepted) =>
                  /\ sent' = Append(sent, SlotRecord(rb, rb.tail))
                  /\ ring_buffer'.count = rb.count - 1
                  /\ ring_buffer'.tail = next
                  /\ ring_buffer'.head = rb.head
                  /\ ring_buffer'.entries = rb.entries
                  /\ Buffered(ring_buffer') = Tail(Buffered(rb))]_vars

\* One work call on the full buffer, the sink accepting: count is 15
C13_Witness ==
    /\ last.op = "work" /\ last.accepted
    /\ last.before = RP_LOG_RING_BUFFER_CNT
    /\ ring_buffer.count = RP_LOG_RING_BUFFER_CNT - 1
    /\ ring_buffer.tail = 1 /\ ring_buffer.head = 0
    /\ Len(sent) = 1

\* C14: a work call made while count is 0 leaves the ring buffer as it is
\* (RB_Pop returns -1), and the sink is not called and nothing is pushed.
C14_PopOnEmptyIsNoOp ==
    [][(WorkStep /\ ring_buffer.count = 0) =>
         /\ ring_buffer' = ring_buffer
         /\ last'.ret = -1 /\ ~last'.accepted /\ last'.rec = <<>>
         /\ sent' = sent /\ nfail' = nfail /\ pushed' = pushed]_vars

\* A work call on a buffer that was filled a little and drained
C14_Witness ==
    /\ last.op = "work" /\ last.ret = -1
    /\ ring_buffer.count = 0
    /\ ring_buffer.head = ring_buffer.tail /\ ring_buffer.tail > 0
    /\ Len(sent) = Len(pushed) /\ Len(sent) > 0

-----------------------------------------------------------------------------
(* Further properties of write over the statements of SpecW                *)

\* The last path component: what is behind the last '/' or '\' of the path
LastSeparator(path) == Max(strrchr(path, 47), strrchr(path, 92))
Basename(path) == SubSeq(path, LastSeparator(path) + 1, Len(path))

\* The length of the timestamp segment of the records written now
TimestampLen == IF config_param.use_timestamp # 0 THEN Len(Dec(tick)) + 3 ELSE 0

\* C15: the file name rendered in a record is the path with everything up to
\* and including the last '/' or '\' removed, whichever comes last; a path
\* without separator is rendered as it is.
C15_LastComponentOfEitherSeparator ==
    [][(WriteStep /\ last'.ret = 0
          /\ Len(Rendered(last'.line)) < RP_LOG_ENTRY_MAX_SIZE - 2) =>
         LET name == Basename(arg.file)
             from == TimestampLen + 9
         IN  /\ SubSeq(Stored, from, from + Len(name) - 1) = name
             /\ Stored[from - 1] = 91
             /\ Stored[from + Len(name)] = 58]_vars

\* The 5-character token of a level, as the wire format gives it
LevelToken(level) ==
    CASE level = RP_LOG_LEVEL_FATAL -> <<70, 65, 84, 65, 76>>     \* "FATAL"
      [] level = RP_LOG_LEVEL_ERROR -> <<69, 82, 82, 79, 82>>     \* "ERROR"
      [] level = RP_LOG_LEVEL_WARN  -> <<87, 65, 82, 78, 32>>     \* "WARN "
      [] level = RP_LOG_LEVEL_INFO  -> <<73, 78, 70, 79, 32>>     \* "INFO "
      [] level = RP_LOG_LEVEL_DEBUG -> <<68, 69, 66, 85, 71>>     \* "DEBUG"
      [] level = RP_LOG_LEVEL_TRACE -> <<84, 82, 65, 67, 69>>     \* "TRACE"

-----------------------------------------------------------------------------
(* Further properties of write and work interleaved (SpecConc)             *)

\* The step with which the RB_Push that work calls after a refused send
\* returns, and with it work
RepushReturns ==
    /\ threads["c"].op = "work"
    /\ threads["c"].pc \in {"push_full", "push_count_store"}
    /\ threads'["c"].pc = "idle"

\* C17: a record that work has popped and whose send was refused is buffered
\* again when work returns, whatever write calls the producer has made
\* between the pop and the re-push: the RB_Push of work returns 0 and the
\* record is one of the buffered records.
C17_RefusedRecordIsBufferedAgain ==
    [][RepushReturns =>
         /\ threads'["c"].ret = 0
         /\ RecordOf("c") \in Range(Buffered(ring_buffer'))]_vars

-----------------------------------------------------------------------------
(* Properties of Spec that the source implies                              *)

\* C18: with write, work (the sink accepting or refusing) and flush called
\* one at a time, head = (tail + count) mod RP_LOG_RING_BUFFER_CNT; the count
\* slots from tail on hold exactly the records written and not sent since the
\* last flush; and head = tail exactly when count is 0 or
\* RP_LOG_RING_BUFFER_CNT.
C18_HeadIsTailPlusCount ==
    /\ ring_buffer.head =
         (ring_buffer.tail + ring_buffer.count) % RP_LOG_RING_BUFFER_CNT
    /\ (ring_buffer.head = ring_buffer.tail)
         = (ring_buffer.count \in {0, RP_LOG_RING_BUFFER_CNT})
    /\ Len(Buffered(ring_buffer)) = ring_buffer.count
    /\ Range(Buffered(ring_buffer)) = Range(pushed) \ Range(sent)
    /\ Cardinality(Range(Buffered(ring_buffer))) = ring_buffer.count

\* A partly filled buffer whose head has wrapped behind tail, after a refused
\* send
C18_Witness ==
    /\ ring_buffer.head < ring_buffer.tail
    /\ ring_buffer.count \in 1..(RP_LOG_RING_BUFFER_CNT - 1)
    /\ nfail >= 1 /\ nflush = 0

\* C19: since the construction or the last flush, the number of write calls
\* that returned 0 is the number of records the sink accepted plus count, and
\* a flush discards exactly count records, so that over the whole behaviour
\* successful writes = accepted + discarded + count; the sink accepts no
\* record twice, none that no successful write stored, and none that a flush
\* has discarded.
C19_Conservation ==
    /\ [](Len(pushed) = Len(sent) + ring_buffer.count)
    /\ [](\A i, j \in 1..Len(sent) : i # j => sent[i] # sent[j])
    /\ [](Range(sent) \subseteq Range(pushed))
    /\ [](Range(sent) \cap flushed = {})
    /\ [][FlushStep =>
            /\ Range(Buffered(ring_buffer)) = Range(pushed) \ Range(sent)
            /\ Cardinality(Range(pushed) \ Range(sent)) = ring_buffer.count
            /\ Range(Buffered(ring_buffer)) \subseteq flushed'
            /\ ring_buffer'.count = 0]_vars
    /\ [][WriteStep => (last'.ret = 0) = (Len(pushed') = Len(pushed) + 1)]_vars

\* After a flush that followed earlier writes: two records written, one of
\* them accepted by the sink, one buffered
C19_Witness ==
    /\ nflush = 1 /\ flushed # {}
    /\ Len(pushed) = 2 /\ Len(sent) = 1
    /\ ring_buffer.count = 1
    /\ last.op = "work" /\ last.accepted

-----------------------------------------------------------------------------
(* Properties of the drain (SpecDrain)                                     *)

\* C20: if from some point on no write succeeds and the sink accepts every
\* send, then with work called again and again count eventually is 0 and
\* stays 0, and the records buffered at that point have been handed to the
\* sink once each, oldest first; every work call on a buffer that is not
\* empty sends the next of them and lowers count by one, so that count calls
\* suffice.
C20_DrainsUnderFairWork ==
    /\ <>[](ring_buffer.count = 0 /\ sent = pushed)
    /\ [](Len(sent) + ring_buffer.count = Len(pushed))
    /\ [][(WorkStep /\ ring_buffer.count > 0) =>
            /\ ring_buffer'.count = ring_buffer.count - 1
            /\ sent' = Append(sent, pushed[Len(sent) + 1])]_vars
    /\ [][WriteStep => last'.ret = -1 /\ ring_buffer' = ring_buffer]_vars

\* A full buffer with wrapped indices, on which a write was refused, has been
\* drained
C20_Witness ==
    /\ ring_buffer.count = 0
    /\ Len(pushed) = RP_LOG_RING_BUFFER_CNT /\ sent = pushed
    /\ ncalls > RP_LOG_RING_BUFFER_CNT + 1
    /\ steps > 0
    /\ last.op = "work" /\ last.ret = -1

====
